---- MODULE Spec2Model ----
(***************************************************************************)
(* cyclic-fs: a ring of fixed-size slots over a byte-addressable store.    *)
(* Each slot is a 4-byte version header followed by stride - 4 payload     *)
(* bytes.  The model keeps the store as an array of bytes and translates   *)
(* format, init (linear and binary head finder), read, write, list and     *)
(* listSlots of class CyclicFS, together with the MockEEPROM store the     *)
(* repository's tests run against.                                         *)
(*                                                                         *)
(* Bytes are ByteBits wide instead of 8, so that a header (HEADER_SIZE     *)
(* bytes) stays inside the integers of the model checker; the erased       *)
(* marker is the all-ones byte / header of that width.                     *)
(***************************************************************************)
EXTENDS Integers, Sequences, FiniteSets, TLC

\* ---------------------------------------------------------------- bounds
ByteBits == 2
StoreLen == 35
MaxWrites == 5
MaxSlots == 3
MaxMediaSlots == 6
MaxCalls == 3

\* ------------------------------------------------------ program constants
DEFAULT_BASE_ADDRESS == 0
DEFAULT_STRIDE == 32
DEFAULT_LITTLE_ENDIAN == FALSE
DEFAULT_FULL_SCAN == FALSE
HEADER_SIZE == 4
ByteRadix == 2 ^ ByteBits
HEADER_INIT_VALUE8 == ByteRadix - 1
HEADER_INIT_VALUE32 == (ByteRadix ^ HEADER_SIZE) - 1

Byte == 0 .. (ByteRadix - 1)
Addr == 0 .. (StoreLen - 1)

\* ------------------------------------------------------------- utilities
Min(a, b) == IF a < b THEN a ELSE b
Max(a, b) == IF a > b THEN a ELSE b

\* An optional value of the caller: <<>> is JavaScript's undefined.
Undefined == <<>>
Some(v) == <<v>>
\* options?.field ?? default
Coalesce(opt, default) == IF opt = Undefined THEN default ELSE opt[1]

\* function* range(start, end, step): start, start + step, ... while <= end
range(start, end, step) ==
    IF end < start THEN << >>
    ELSE [i \in 1 .. (((end - start) \div step) + 1) |-> start + (i - 1) * step]

\* ------------------------------------------------------ MockEEPROM (store)
\* TypedArray.subarray index handling: negative counts from the end, then clamp.
ClampIndex(i) == IF i < 0 THEN Max(StoreLen + i, 0) ELSE Min(i, StoreLen)

\* MockEEPROM.read(offset, length): throws past the end of the store,
\* otherwise this.u8.subarray(offset, offset + length), which is cut at the end.
MockRead(m, offset, length) ==
    IF offset >= StoreLen
    THEN [ok |-> FALSE, err |-> "out of range", bytes |-> << >>]
    ELSE LET b == ClampIndex(offset)
             e == ClampIndex(offset + length)
             n == Max(e - b, 0)
         IN [ok |-> TRUE, err |-> "", bytes |-> [i \in 1 .. n |-> m[b + i - 1]]]

\* MockEEPROM.write(offset, buffer): throws when the buffer does not fit,
\* otherwise this.u8.set(buffer, offset).
MockWrite(m, offset, buffer) ==
    IF offset + Len(buffer) > StoreLen
    THEN [ok |-> FALSE, err |-> "overflow", mem |-> m]
    ELSE [ok |-> TRUE, err |-> "",
          mem |-> [a \in Addr |->
                     IF a >= offset /\ a < offset + Len(buffer)
                     THEN buffer[a - offset + 1] ELSE m[a]]]

\* ------------------------------------------------------------ slot codec
\* A faulty variant of the decoder: the byte order is not looked at.
getUint32_bigEndian(bytes, littleEndian) ==
    bytes[4] + ByteRadix * (bytes[3] + ByteRadix * (bytes[2] + ByteRadix * bytes[1]))

\* DataView.getUint32(0, littleEndian) over the first HEADER_SIZE bytes.
getUint32(bytes, littleEndian) ==
    IF littleEndian
    THEN bytes[1] + ByteRadix * (bytes[2] + ByteRadix * (bytes[3] + ByteRadix * bytes[4]))
    ELSE bytes[4] + ByteRadix * (bytes[3] + ByteRadix * (bytes[2] + ByteRadix * bytes[1]))

\* DataView.setUint32(0, value, littleEndian): value modulo the header width.
setUint32(value, littleEndian) ==
    LET v  == value % (ByteRadix ^ HEADER_SIZE)
        b0 == v % ByteRadix
        b1 == (v \div ByteRadix) % ByteRadix
        b2 == (v \div (ByteRadix * ByteRadix)) % ByteRadix
        b3 == (v \div (ByteRadix * ByteRadix * ByteRadix)) % ByteRadix
    IN IF littleEndian THEN <<b0, b1, b2, b3>> ELSE <<b3, b2, b1, b0>>

\* CyclicFS.#readVersion(eeprom, offset, options)
readVersion(m, offset, options) ==
    LET header == MockRead(m, options.baseAddress + offset, HEADER_SIZE)
    IN IF ~header.ok
       THEN [ok |-> FALSE, err |-> header.err, version |-> 0]
       ELSE IF Len(header.bytes) < HEADER_SIZE
       THEN [ok |-> FALSE, err |-> "RangeError", version |-> 0]
       ELSE [ok |-> TRUE, err |-> "",
             version |-> getUint32(header.bytes, options.littleEndian)]

\* A faulty variant of the slot read: a read the store refuses is taken for an
\* erased slot.
readSlot_swallowing(m, offset, options) ==
    LET block == MockRead(m, options.baseAddress + offset, options.stride)
    IN IF ~block.ok \/ Len(block.bytes) < HEADER_SIZE
       THEN [ok |-> TRUE, err |-> "", version |-> HEADER_INIT_VALUE32, data |-> << >>]
       ELSE [ok |-> TRUE, err |-> "",
             version |-> getUint32(block.bytes, options.littleEndian),
             data |-> SubSeq(block.bytes, HEADER_SIZE + 1, Len(block.bytes))]

\* CyclicFS.#readSlot(eeprom, offset, options)
readSlot(m, offset, options) ==
    LET block == MockRead(m, options.baseAddress + offset, options.stride)
    IN IF ~block.ok
       THEN [ok |-> FALSE, err |-> block.err, version |-> 0, data |-> << >>]
       ELSE IF Len(block.bytes) < HEADER_SIZE
       THEN [ok |-> FALSE, err |-> "RangeError", version |-> 0, data |-> << >>]
       ELSE [ok |-> TRUE, err |-> "",
             version |-> getUint32(block.bytes, options.littleEndian),
             data |-> SubSeq(block.bytes, HEADER_SIZE + 1, Len(block.bytes))]

\* ----------------------------------------------------------- head finder
\* A faulty variant of the result: the empty flag is never set.
SearchResult_neverEmpty(version, offset, empty, reads) ==
    [ok |-> TRUE, err |-> "", version |-> version, offset |-> offset,
     empty |-> FALSE, reads |-> reads]

\* A SearchResult, with the outcome of the store reads and the offsets
\* (relative to baseAddress) of the headers read, in the order read.
SearchResult(version, offset, empty, reads) ==
    [ok |-> TRUE, err |-> "", version |-> version, offset |-> offset,
     empty |-> empty, reads |-> reads]

SearchFailure(err, reads) ==
    [ok |-> FALSE, err |-> err, version |-> 0, offset |-> 0,
     empty |-> TRUE, reads |-> reads]

\* The loop of CyclicFS.#search_linear over range(0, byteLength - 1, stride).
RECURSIVE linear_loop(_, _, _, _, _)
linear_loop(m, options, offsets, i, result) ==
    IF i > Len(offsets) THEN result
    ELSE LET offset  == offsets[i]
             version == readVersion(m, offset, options)
             reads   == Append(result.reads, offset)
         IN IF ~version.ok THEN SearchFailure(version.err, reads)
            ELSE IF version.version = HEADER_INIT_VALUE32
            THEN [result EXCEPT !.reads = reads]
            ELSE IF version.version > result.version \/ result.empty
            THEN linear_loop(m, options, offsets, i + 1,
                             SearchResult(version.version, offset, FALSE, reads))
            ELSE linear_loop(m, options, offsets, i + 1,
                             [result EXCEPT !.reads = reads])

\* CyclicFS.#search_linear(eeprom, options)
search_linear(m, options) ==
    linear_loop(m, options, range(0, options.byteLength - 1, options.stride), 1,
                SearchResult(0, 0, TRUE, << >>))

\* The closure _search(startPos, endPos, startValue) of CyclicFS.#search_binary.
RECURSIVE _search(_, _, _, _, _, _)
_search(m, options, startPos, endPos, startValue, reads) ==
    IF startPos = endPos
    THEN SearchResult(startValue, startPos * options.stride, FALSE, reads)
    ELSE LET pivot      == startPos + ((endPos - startPos) \div 2)
             pivotValue == readVersion(m, pivot * options.stride, options)
             reads1     == Append(reads, pivot * options.stride)
         IN IF ~pivotValue.ok THEN SearchFailure(pivotValue.err, reads1)
            ELSE IF pivotValue.version < startValue
                    \/ pivotValue.version = HEADER_INIT_VALUE32
            THEN \* Pivot Left
                 _search(m, options, startPos, pivot - 1, startValue, reads1)
            ELSE \* Pivot Right
                 LET newStartValue == readVersion(m, (pivot + 1) * options.stride, options)
                     reads2        == Append(reads1, (pivot + 1) * options.stride)
                 IN IF ~newStartValue.ok THEN SearchFailure(newStartValue.err, reads2)
                    ELSE IF pivotValue.version > newStartValue.version
                            \/ newStartValue.version = HEADER_INIT_VALUE32
                    THEN SearchResult(pivotValue.version, pivot * options.stride,
                                      FALSE, reads2)
                    ELSE _search(m, options, pivot + 1, endPos,
                                 newStartValue.version, reads2)

\* A faulty variant of the count: the residual bytes count as a slot.
slotCount_ceil(options) ==
    (options.byteLength + options.stride - 1) \div options.stride

\* Math.floor(byteLength / stride)
slotCount(options) == options.byteLength \div options.stride

\* A faulty variant of the binary head finder: it scans the slots one by one.
search_binary_scanning(m, options) == search_linear(m, options)

\* CyclicFS.#search_binary(eeprom, options)
search_binary(m, options) ==
    LET value == readVersion(m, 0, options)
    IN IF ~value.ok THEN SearchFailure(value.err, <<0>>)
       ELSE IF value.version = HEADER_INIT_VALUE32
       THEN SearchResult(0, 0, TRUE, <<0>>)
       ELSE _search(m, options, 0, slotCount(options) - 1, value.version, <<0>>)

\* The arguments (startPos, endPos) of the successive calls of the closure
\* _search, in call order; the list ends at a call that returns without
\* recursing, or at a call whose interval is inverted.
RECURSIVE _search_calls(_, _, _, _, _, _)
_search_calls(m, options, startPos, endPos, startValue, calls) ==
    LET here == Append(calls, <<startPos, endPos>>)
    IN IF startPos >= endPos THEN here
       ELSE LET pivot      == startPos + ((endPos - startPos) \div 2)
                pivotValue == readVersion(m, pivot * options.stride, options)
            IN IF ~pivotValue.ok THEN here
               ELSE IF pivotValue.version < startValue
                       \/ pivotValue.version = HEADER_INIT_VALUE32
               THEN _search_calls(m, options, startPos, pivot - 1, startValue, here)
               ELSE LET newStartValue == readVersion(m, (pivot + 1) * options.stride, options)
                    IN IF ~newStartValue.ok THEN here
                       ELSE IF pivotValue.version > newStartValue.version
                               \/ newStartValue.version = HEADER_INIT_VALUE32
                       THEN here
                       ELSE _search_calls(m, options, pivot + 1, endPos,
                                          newStartValue.version, here)

\* The calls of _search one run of CyclicFS.#search_binary makes.
search_binary_calls(m, options) ==
    LET value == readVersion(m, 0, options)
    IN IF ~value.ok \/ value.version = HEADER_INIT_VALUE32 THEN << >>
       ELSE _search_calls(m, options, 0, slotCount(options) - 1, value.version, << >>)

\* CyclicFS.#search(eeprom, options)
search(m, options) ==
    IF options.fullScan THEN search_linear(m, options) ELSE search_binary(m, options)

\* ------------------------------------------------------------ operations
\* The value standing for "no handle": the caller holds none.
NoHandle ==
    [baseAddress |-> 0, stride |-> 0, littleEndian |-> FALSE, byteLength |-> 0,
     fullScan |-> FALSE, version |-> 0, offset |-> 0, empty |-> TRUE]

\* A faulty variant of the block: one byte too long.
formatBlock_offByOne(byteLength) == [i \in 1 .. (byteLength + 1) |-> HEADER_INIT_VALUE8]

\* The block CyclicFS.format writes: byteLength bytes of HEADER_INIT_VALUE8.
formatBlock(byteLength) == [i \in 1 .. byteLength |-> HEADER_INIT_VALUE8]

\* CyclicFS.format(eeprom, byteLength, options)
format(m, byteLength, options) ==
    LET baseAddress == Coalesce(options.baseAddress, DEFAULT_BASE_ADDRESS)
    IN MockWrite(m, baseAddress, formatBlock(byteLength))

\* A faulty variant of the meta object: littleEndian and fullScan exchanged.
initMeta_swapped(byteLength, options) ==
    [baseAddress  |-> Coalesce(options.baseAddress, DEFAULT_BASE_ADDRESS),
     stride       |-> Coalesce(options.stride, DEFAULT_STRIDE),
     littleEndian |-> Coalesce(options.fullScan, DEFAULT_FULL_SCAN),
     byteLength   |-> byteLength,
     fullScan     |-> Coalesce(options.littleEndian, DEFAULT_LITTLE_ENDIAN)]

\* The meta object CyclicFS.init builds from its options and the defaults.
initMeta(byteLength, options) ==
    [baseAddress  |-> Coalesce(options.baseAddress, DEFAULT_BASE_ADDRESS),
     stride       |-> Coalesce(options.stride, DEFAULT_STRIDE),
     littleEndian |-> Coalesce(options.littleEndian, DEFAULT_LITTLE_ENDIAN),
     byteLength   |-> byteLength,
     fullScan     |-> Coalesce(options.fullScan, DEFAULT_FULL_SCAN)]

\* CyclicFS.init(eeprom, byteLength, options): { ...meta, ...metameta }
init(m, byteLength, options) ==
    LET meta     == initMeta(byteLength, options)
        metameta == search(m, meta)
    IN [ok |-> metameta.ok, err |-> metameta.err, reads |-> metameta.reads,
        metadata |->
            IF metameta.ok
            THEN [baseAddress |-> meta.baseAddress, stride |-> meta.stride,
                  littleEndian |-> meta.littleEndian, byteLength |-> meta.byteLength,
                  fullScan |-> meta.fullScan, version |-> metameta.version,
                  offset |-> metameta.offset, empty |-> metameta.empty]
            ELSE NoHandle]

\* A faulty variant of the comparison: a newer header passes too.
versionMatches_atLeast(slotVersion, version) == slotVersion >= version

\* CyclicFS.read(eeprom, metadata)
versionMatches(slotVersion, version) == slotVersion = version

read(m, metadata) ==
    IF metadata.empty
    THEN [ok |-> TRUE, err |-> "", data |-> Undefined, reads |-> << >>]
    ELSE LET slot == readSlot(m, metadata.offset, metadata)
         IN IF ~slot.ok
            THEN [ok |-> FALSE, err |-> slot.err, data |-> Undefined,
                  reads |-> <<metadata.offset>>]
            ELSE IF ~versionMatches(slot.version, metadata.version)
            THEN [ok |-> FALSE, err |-> "version miss-match", data |-> Undefined,
                  reads |-> <<metadata.offset>>]
            ELSE [ok |-> TRUE, err |-> "", data |-> Some(slot.data),
                  reads |-> <<metadata.offset>>]

\* A faulty variant of the size check: a buffer that fills the slot is refused.
bufferTooLarge_inclusive(buffer, stride) == (Len(buffer) + HEADER_SIZE) >= stride

\* CyclicFS.write(eeprom, metadata, buffer): the checks and the next position.
bufferTooLarge(buffer, stride) == (Len(buffer) + HEADER_SIZE) > stride

wrap(metadata) == (metadata.offset + metadata.stride) >= metadata.byteLength

nextVersion(metadata) ==
    IF metadata.empty THEN metadata.version ELSE metadata.version + 1

nextOffset(metadata) ==
    IF metadata.empty THEN metadata.offset
    ELSE IF wrap(metadata) THEN 0 ELSE metadata.offset + metadata.stride

\* A faulty variant of the block: the header is the handle's present version.
writeBlock_presentVersion(metadata, buffer) ==
    setUint32(metadata.version, metadata.littleEndian) \o buffer

\* new Blob([ header, buffer ])
writeBlock(metadata, buffer) ==
    setUint32(nextVersion(metadata), metadata.littleEndian) \o buffer

\* The handle after the store write has returned.
writeCommit(metadata) ==
    [metadata EXCEPT !.version = nextVersion(metadata),
                     !.offset = nextOffset(metadata),
                     !.empty = FALSE]

\* A faulty variant: the handle is assigned before the store write is awaited.
writeAbort_assigned(metadata) == writeCommit(metadata)

\* The handle when the store write has thrown: the assignments are not reached.
writeAbort(metadata) == metadata

write(m, metadata, buffer) ==
    IF buffer = Undefined
    THEN [ok |-> FALSE, err |-> "buffer undefined", mem |-> m,
          metadata |-> metadata, writes |-> << >>]
    ELSE IF bufferTooLarge(buffer[1], metadata.stride)
    THEN [ok |-> FALSE, err |-> "buffer size larger then stride", mem |-> m,
          metadata |-> metadata, writes |-> << >>]
    ELSE LET address == metadata.baseAddress + nextOffset(metadata)
             stored  == MockWrite(m, address, writeBlock(metadata, buffer[1]))
         IN IF ~stored.ok
            THEN [ok |-> FALSE, err |-> stored.err, mem |-> stored.mem,
                  metadata |-> writeAbort(metadata), writes |-> <<address>>]
            ELSE [ok |-> TRUE, err |-> "", mem |-> stored.mem,
                  metadata |-> writeCommit(metadata), writes |-> <<address>>]

\* CyclicFS.listSlots(eeprom, options): one slot per offset of the range.
RECURSIVE listSlots_loop(_, _, _, _, _)
listSlots_loop(m, options, offsets, i, out) ==
    IF i > Len(offsets) THEN out
    ELSE LET slot == readSlot(m, offsets[i], options)
             reads == Append(out.reads, offsets[i])
         IN IF ~slot.ok
            THEN [out EXCEPT !.ok = FALSE, !.err = slot.err, !.reads = reads]
            ELSE listSlots_loop(m, options, offsets, i + 1,
                    [out EXCEPT !.reads = reads,
                                !.slots = Append(@, [version |-> slot.version,
                                                     data |-> slot.data])])

listSlots(m, options) ==
    listSlots_loop(m, options, range(0, options.byteLength - 1, options.stride), 1,
                   [ok |-> TRUE, err |-> "", slots |-> << >>, reads |-> << >>])

\* CyclicFS.list(eeprom, metadata): backward from the head, modulo byteLength.
actualOffset(metadata, relativeOffset) ==
    (metadata.offset - relativeOffset + metadata.byteLength) % metadata.byteLength

RECURSIVE list_loop(_, _, _, _, _)
list_loop(m, metadata, offsets, i, out) ==
    IF i > Len(offsets) THEN out
    ELSE LET at   == actualOffset(metadata, offsets[i])
             slot == readSlot(m, at, metadata)
             reads == Append(out.reads, at)
         IN IF ~slot.ok
            THEN [out EXCEPT !.ok = FALSE, !.err = slot.err, !.reads = reads]
            ELSE IF slot.version = HEADER_INIT_VALUE32
            THEN [out EXCEPT !.reads = reads]
            ELSE list_loop(m, metadata, offsets, i + 1,
                    [out EXCEPT !.reads = reads,
                                !.slots = Append(@, [version |-> slot.version,
                                                     data |-> slot.data])])

\* A faulty variant of list: the empty flag is not looked at.
list_unchecked(m, metadata) ==
    list_loop(m, metadata,
              range(0, metadata.byteLength - 1, metadata.stride), 1,
              [ok |-> TRUE, err |-> "", slots |-> << >>, reads |-> << >>])

list(m, metadata) ==
    IF metadata.empty
    THEN [ok |-> TRUE, err |-> "", slots |-> << >>, reads |-> << >>]
    ELSE list_loop(m, metadata,
                   range(0, metadata.byteLength - 1, metadata.stride), 1,
                   [ok |-> TRUE, err |-> "", slots |-> << >>, reads |-> << >>])

\* ---------------------------------------------------------------- state
VARIABLES
    mem,          \* the store: MockEEPROM.u8
    cfg,          \* byteLength and the options the caller passes to format and init
    handle,       \* the caller's handle (Metadata), NoHandle before the first init
    other,        \* a second handle over the same partition, NoHandle when unused
    ret,          \* what the last operation returned or threw, and its store accesses
    formatted,    \* history: a format has succeeded
    k,            \* history: successful writes since the last format (or the start)
    lastWrite,    \* history: the payload of the last successful write
    overwritten,  \* history: other has written the slot handle points at
    reinit,       \* history: handle comes from an init made after a write
    torn,         \* history: a write has been interrupted while programming its slot
    pending       \* the write calls in flight: what each holds across its awaits

vars == <<mem, cfg, handle, other, ret, formatted, k, lastWrite, overwritten, reinit,
          torn, pending>>

\* ------------------------------------------------------------ the inputs
\* MockEEPROM's constructor fills the store with bytes that are neither 0
\* nor HEADER_INIT_VALUE8.
RawMem == [a \in Addr |-> 1 + (a % (HEADER_INIT_VALUE8 - 1))]

FullScanOptions == {Undefined, Some(TRUE)}
Residuals == {0, 2}

\* The layouts: the defaults, or a partition at address 2 with little-endian headers.
Layouts ==
    {[baseAddress |-> Undefined, littleEndian |-> Undefined],
     [baseAddress |-> Some(2), littleEndian |-> Some(TRUE)]}

\* The smallest stride: the header and one byte of payload.
MIN_STRIDE == HEADER_SIZE + 1

\* byteLength >= stride >= MIN_STRIDE; byteLength need not be a multiple of
\* stride.  With the default stride the partition holds one slot.
Configs ==
    {[byteLength |-> n * MIN_STRIDE + r,
      options |-> [baseAddress |-> y.baseAddress, stride |-> Some(MIN_STRIDE),
                   littleEndian |-> y.littleEndian]] :
        n \in 1 .. MaxSlots, r \in Residuals, y \in Layouts}
    \cup
    {[byteLength |-> DEFAULT_STRIDE + r,
      options |-> [baseAddress |-> y.baseAddress, stride |-> Undefined,
                   littleEndian |-> y.littleEndian]] :
        r \in Residuals, y \in Layouts}

\* The options object of one init call.
InitOptions(fullScan) ==
    [baseAddress |-> cfg.options.baseAddress, stride |-> cfg.options.stride,
     littleEndian |-> cfg.options.littleEndian, fullScan |-> fullScan]

\* The payloads a caller passes to write through a handle of the given stride:
\* one byte, the longest that fits (stride - HEADER_SIZE bytes) and one byte more
\* than fits, each filled with 1 or with HEADER_INIT_VALUE8; or no buffer at all.
Buffers(stride) ==
    {Undefined} \cup
    {Some([i \in 1 .. n |-> b]) :
        n \in {1, stride - HEADER_SIZE, stride - HEADER_SIZE + 1},
        b \in {1, HEADER_INIT_VALUE8}}

\* ------------------------------------------------------ calls in flight
\* A call of write that has not been entered, or has returned or thrown.
Idle == [pc |-> "idle", nextVersion |-> 0, nextOffset |-> 0, block |-> << >>]

\* No call of write is in flight.
NoCalls == [c \in 1 .. MaxCalls |-> Idle]

\* ------------------------------------------------------------ the result
NoResult ==
    [op |-> "none", ok |-> TRUE, err |-> "", metadata |-> NoHandle,
     data |-> Undefined, slots |-> << >>, reads |-> << >>, writes |-> << >>,
     buffer |-> Undefined, fullScan |-> Undefined]

Init ==
    /\ mem = RawMem
    /\ cfg \in Configs
    /\ handle = NoHandle
    /\ other = NoHandle
    /\ ret = NoResult
    /\ formatted = FALSE
    /\ k = 0
    /\ lastWrite = Undefined
    /\ overwritten = FALSE
    /\ reinit = FALSE
    /\ torn = FALSE
    /\ pending = NoCalls

\* ----------------------------------------------------------- the actions
\* await CyclicFS.format(eeprom, byteLength, options), once in a run; the caller
\* drops the handles it held.
Format ==
    /\ ~formatted
    /\ \E r \in {format(mem, cfg.byteLength, cfg.options)} :
       /\ mem' = r.mem
       /\ ret' = [NoResult EXCEPT !.op = "format", !.ok = r.ok, !.err = r.err,
                                  !.writes = <<Coalesce(cfg.options.baseAddress,
                                                        DEFAULT_BASE_ADDRESS)>>]
       /\ IF r.ok
          THEN /\ handle' = NoHandle
               /\ other' = NoHandle
               /\ formatted' = TRUE
               /\ k' = 0
               /\ lastWrite' = Undefined
               /\ overwritten' = FALSE
               /\ reinit' = FALSE
               /\ torn' = FALSE
          ELSE UNCHANGED <<handle, other, formatted, k, lastWrite, overwritten, reinit, torn>>
       /\ UNCHANGED <<cfg, pending>>

\* A faulty variant of the call: init erases the header of the slot it elects.
InitHandle_erasing(fullScan) ==
    \E r \in {init(mem, cfg.byteLength, InitOptions(fullScan))} :
       /\ ret' = [NoResult EXCEPT !.op = "init", !.ok = r.ok, !.err = r.err,
                                  !.metadata = r.metadata, !.reads = r.reads,
                                  !.fullScan = fullScan]
       /\ handle' = IF r.ok THEN r.metadata ELSE handle
       /\ mem' = IF r.ok
                 THEN MockWrite(mem, r.metadata.baseAddress + r.metadata.offset,
                                setUint32(HEADER_INIT_VALUE32, r.metadata.littleEndian)).mem
                 ELSE mem
       /\ overwritten' = IF r.ok THEN FALSE ELSE overwritten
       /\ reinit' = IF r.ok THEN k >= 1 ELSE reinit
       /\ UNCHANGED <<cfg, other, formatted, k, lastWrite, torn, pending>>

\* handle = await CyclicFS.init(eeprom, byteLength, options)
InitHandle(fullScan) ==
    \E r \in {init(mem, cfg.byteLength, InitOptions(fullScan))} :
       /\ ret' = [NoResult EXCEPT !.op = "init", !.ok = r.ok, !.err = r.err,
                                  !.metadata = r.metadata, !.reads = r.reads,
                                  !.fullScan = fullScan]
       /\ handle' = IF r.ok THEN r.metadata ELSE handle
       /\ overwritten' = IF r.ok THEN FALSE ELSE overwritten
       /\ reinit' = IF r.ok THEN k >= 1 ELSE reinit
       /\ UNCHANGED <<mem, cfg, other, formatted, k, lastWrite, torn, pending>>

\* await CyclicFS.write(eeprom, handle, buffer)
Write(buffer) ==
    /\ handle # NoHandle
    /\ k < MaxWrites
    /\ \E r \in {write(mem, handle, buffer)} :
          /\ mem' = r.mem
          /\ handle' = r.metadata
          /\ ret' = [NoResult EXCEPT !.op = "write", !.ok = r.ok, !.err = r.err,
                                     !.writes = r.writes, !.buffer = buffer]
          /\ k' = IF r.ok THEN k + 1 ELSE k
          /\ lastWrite' = IF r.ok THEN buffer ELSE lastWrite
          /\ overwritten' = IF r.ok THEN FALSE ELSE overwritten
    /\ UNCHANGED <<cfg, other, formatted, reinit, torn, pending>>

\* A faulty variant of the call: reading consumes the head, the handle is left empty.
Read_consuming ==
    /\ handle # NoHandle
    /\ \E r \in {read(mem, handle)} :
          ret' = [NoResult EXCEPT !.op = "read", !.ok = r.ok, !.err = r.err,
                                  !.data = r.data, !.reads = r.reads]
    /\ handle' = [handle EXCEPT !.empty = TRUE]
    /\ UNCHANGED <<mem, cfg, other, formatted, k, lastWrite, overwritten, reinit, torn, pending>>

\* await CyclicFS.read(eeprom, handle)
Read ==
    /\ handle # NoHandle
    /\ \E r \in {read(mem, handle)} :
          ret' = [NoResult EXCEPT !.op = "read", !.ok = r.ok, !.err = r.err,
                                  !.data = r.data, !.reads = r.reads]
    /\ UNCHANGED <<mem, cfg, handle, other, formatted, k, lastWrite, overwritten, reinit, torn, pending>>

\* await Array.fromAsync(CyclicFS.list(eeprom, handle))
List ==
    /\ handle # NoHandle
    /\ \E r \in {list(mem, handle)} :
          ret' = [NoResult EXCEPT !.op = "list", !.ok = r.ok, !.err = r.err,
                                  !.slots = r.slots, !.reads = r.reads]
    /\ UNCHANGED <<mem, cfg, handle, other, formatted, k, lastWrite, overwritten, reinit, torn, pending>>

\* await Array.fromAsync(CyclicFS.listSlots(eeprom, options)): layout options only
ListSlots ==
    /\ \E r \in {listSlots(mem, initMeta(cfg.byteLength, InitOptions(Undefined)))} :
          ret' = [NoResult EXCEPT !.op = "listSlots", !.ok = r.ok, !.err = r.err,
                                  !.slots = r.slots, !.reads = r.reads]
    /\ UNCHANGED <<mem, cfg, handle, other, formatted, k, lastWrite, overwritten, reinit, torn, pending>>

Next ==
    \/ Format
    \/ \E fullScan \in FullScanOptions : InitHandle(fullScan)
    \/ \E buffer \in Buffers(handle.stride) : Write(buffer)
    \/ Read
    \/ List
    \/ ListSlots

Spec == Init /\ [][Next]_vars

\* ------------------------------------------- two handles over one partition
\* A second caller holds the handle other over the same partition: one or two
\* whole slots of the smallest stride at the default base address.
SharedConfigs ==
    {c \in Configs : /\ c.options.stride = Some(MIN_STRIDE)
                     /\ c.options.baseAddress = Undefined
                     /\ c.byteLength \in {MIN_STRIDE, 2 * MIN_STRIDE}}

\* The payloads the second caller writes.
OtherBuffers(stride) ==
    {Some([i \in 1 .. n |-> 2]) : n \in {1, stride - HEADER_SIZE}}

InitShared == Init /\ cfg \in SharedConfigs

\* other = await CyclicFS.init(eeprom, byteLength, options)
InitOther(fullScan) ==
    \E r \in {init(mem, cfg.byteLength, InitOptions(fullScan))} :
       /\ ret' = [NoResult EXCEPT !.op = "other.init", !.ok = r.ok, !.err = r.err,
                                  !.metadata = r.metadata, !.reads = r.reads,
                                  !.fullScan = fullScan]
       /\ other' = IF r.ok THEN r.metadata ELSE other
       /\ UNCHANGED <<mem, cfg, handle, formatted, k, lastWrite, overwritten, reinit, torn, pending>>

\* await CyclicFS.write(eeprom, other, buffer)
WriteOther(buffer) ==
    /\ other # NoHandle
    /\ k < MaxWrites
    /\ \E r \in {write(mem, other, buffer)} :
          /\ mem' = r.mem
          /\ other' = r.metadata
          /\ ret' = [NoResult EXCEPT !.op = "other.write", !.ok = r.ok, !.err = r.err,
                                     !.writes = r.writes, !.buffer = buffer]
          /\ k' = IF r.ok THEN k + 1 ELSE k
          /\ overwritten' = IF r.ok /\ handle # NoHandle /\ ~handle.empty
                               /\ r.metadata.offset = handle.offset
                            THEN TRUE ELSE overwritten
    /\ UNCHANGED <<cfg, handle, formatted, lastWrite, reinit, torn, pending>>

NextShared ==
    \/ Next
    \/ \E fullScan \in FullScanOptions : InitOther(fullScan)
    \/ \E buffer \in OtherBuffers(other.stride) : WriteOther(buffer)

SpecShared == InitShared /\ [][NextShared]_vars

\* The payload a second or an interrupted writer passes: one byte.
TornBuffers == {Some(<<2>>)}

\* ------------------------------------------- two partitions of one store
\* A second file system lives in the bytes that follow the partition: its
\* baseAddress is the end of the first, with the same byteLength, stride and
\* byte order.  The handle other is a handle over it.
DisjointConfigs ==
    {c \in Configs : /\ c.options.stride = Some(MIN_STRIDE)
                     /\ c.byteLength < 3 * MIN_STRIDE}

NeighbourBase ==
    Coalesce(cfg.options.baseAddress, DEFAULT_BASE_ADDRESS) + cfg.byteLength

NeighbourOptions(fullScan) ==
    [baseAddress |-> Some(NeighbourBase), stride |-> cfg.options.stride,
     littleEndian |-> cfg.options.littleEndian, fullScan |-> fullScan]

InitDisjoint == Init /\ cfg \in DisjointConfigs

\* await CyclicFS.format(eeprom, byteLength, neighbourOptions)
FormatNeighbour ==
    /\ \E r \in {format(mem, cfg.byteLength, NeighbourOptions(Undefined))} :
          /\ mem' = r.mem
          /\ ret' = [NoResult EXCEPT !.op = "other.format", !.ok = r.ok,
                                     !.err = r.err, !.writes = <<NeighbourBase>>]
    /\ UNCHANGED <<cfg, handle, other, formatted, k, lastWrite, overwritten, reinit, torn, pending>>

\* other = await CyclicFS.init(eeprom, byteLength, neighbourOptions)
InitNeighbour(fullScan) ==
    \E r \in {init(mem, cfg.byteLength, NeighbourOptions(fullScan))} :
       /\ ret' = [NoResult EXCEPT !.op = "other.init", !.ok = r.ok, !.err = r.err,
                                  !.metadata = r.metadata, !.reads = r.reads,
                                  !.fullScan = fullScan]
       /\ other' = IF r.ok THEN r.metadata ELSE other
       /\ UNCHANGED <<mem, cfg, handle, formatted, k, lastWrite, overwritten, reinit, torn, pending>>

\* await CyclicFS.write(eeprom, other, buffer)
WriteNeighbour(buffer) ==
    /\ other # NoHandle
    /\ k < MaxWrites
    /\ \E r \in {write(mem, other, buffer)} :
          /\ mem' = r.mem
          /\ other' = r.metadata
          /\ ret' = [NoResult EXCEPT !.op = "other.write", !.ok = r.ok, !.err = r.err,
                                     !.writes = r.writes, !.buffer = buffer]
          /\ k' = IF r.ok THEN k + 1 ELSE k
    /\ UNCHANGED <<cfg, handle, formatted, lastWrite, overwritten, reinit, torn, pending>>

\* await CyclicFS.read(eeprom, other)
ReadNeighbour ==
    /\ other # NoHandle
    /\ \E r \in {read(mem, other)} :
          ret' = [NoResult EXCEPT !.op = "other.read", !.ok = r.ok, !.err = r.err,
                                  !.data = r.data, !.reads = r.reads]
    /\ UNCHANGED <<mem, cfg, handle, other, formatted, k, lastWrite, overwritten, reinit, torn, pending>>

\* Every byte of the second partition is erased.
NeighbourErased ==
    \A a \in NeighbourBase .. (NeighbourBase + cfg.byteLength - 1) :
        mem[a] = HEADER_INIT_VALUE8

\* As in the README's partitioned example: both file systems are formatted
\* before either is used, and the callers write one-byte payloads.
NextDisjoint ==
    \/ NeighbourErased /\ Format
    \/ formatted /\ \E fullScan \in FullScanOptions : InitHandle(fullScan)
    \/ \E buffer \in TornBuffers : Write(buffer)
    \/ Read
    \/ ~formatted /\ ~NeighbourErased /\ FormatNeighbour
    \/ formatted /\ \E fullScan \in FullScanOptions : InitNeighbour(fullScan)
    \/ \E buffer \in TornBuffers : WriteNeighbour(buffer)
    \/ ReadNeighbour

SpecDisjoint == InitDisjoint /\ [][NextDisjoint]_vars

\* --------------------------------------------------- an interrupted write
\* Header values an interrupted programming can leave besides a mix of old and
\* new bytes: all zero, the erased marker and the value just below it.
GarbageHeaders == {0, HEADER_INIT_VALUE32 - 1, HEADER_INIT_VALUE32}

\* What the target bytes hold when eeprom.write stops after programming part of
\* block over the bytes old: the first j bytes programmed, up to the header and
\* one payload byte, or the whole block with a garbage header.
TornBlocks(block, old, littleEndian) ==
    {SubSeq(block, 1, j) \o SubSeq(old, j + 1, Len(block)) :
        j \in 1 .. (HEADER_SIZE + 1)}
    \cup
    {setUint32(g, littleEndian) \o SubSeq(block, HEADER_SIZE + 1, Len(block)) :
        g \in GarbageHeaders}

\* await CyclicFS.write(eeprom, handle, buffer) where eeprom.write rejects after
\* it has programmed part of the slot: the handle is not assigned.  Once in a run.
TornWrite(buffer) ==
    /\ handle # NoHandle
    /\ ~torn
    /\ buffer # Undefined
    /\ ~bufferTooLarge(buffer[1], handle.stride)
    /\ LET address == handle.baseAddress + nextOffset(handle)
           block   == writeBlock(handle, buffer[1])
       IN /\ address + Len(block) <= StoreLen
          /\ \E programmed \in TornBlocks(block,
                                          MockRead(mem, address, Len(block)).bytes,
                                          handle.littleEndian) :
                mem' = MockWrite(mem, address, programmed).mem
          /\ ret' = [NoResult EXCEPT !.op = "torn", !.ok = FALSE,
                                     !.err = "interrupted",
                                     !.writes = <<address>>, !.buffer = buffer]
    /\ handle' = writeAbort(handle)
    /\ torn' = TRUE
    /\ UNCHANGED <<cfg, other, formatted, k, lastWrite, overwritten, reinit, pending>>

\* The partitions an interrupted write is followed on: one or two slots of the
\* smallest stride, with or without residual bytes.
TornConfigs ==
    {c \in Configs : /\ c.options.stride = Some(MIN_STRIDE)
                     /\ c.byteLength < 3 * MIN_STRIDE}

InitTorn == Init /\ cfg \in TornConfigs

\* After the interruption the caller recovers: it calls init, read and list.
NextTorn ==
    \/ ~torn /\ Next
    \/ \E buffer \in TornBuffers : TornWrite(buffer)
    \/ torn /\ \E fullScan \in FullScanOptions : InitHandle(fullScan)
    \/ torn /\ Read
    \/ torn /\ List

SpecTorn == InitTorn /\ [][NextTorn]_vars

\* ------------------------------------------------- numbered payloads
\* A caller that numbers its writes: the payload of its i-th successful write
\* (counted from 0) is one or two bytes of value i mod ByteRadix, as the slot allows.
PayloadOf(i) ==
    [j \in 1 .. Min(1 + (i % 2), Coalesce(cfg.options.stride, DEFAULT_STRIDE) - HEADER_SIZE)
        |-> i % ByteRadix]

NextNumbered ==
    \/ Format
    \/ \E fullScan \in FullScanOptions : InitHandle(fullScan)
    \/ \E buffer \in {Some(PayloadOf(k))} : Write(buffer)
    \/ List

SpecNumbered == Init /\ [][NextNumbered]_vars

\* ---------------------------------------------------- arbitrary media
\* A partition found with arbitrary contents: every slot header is 0, 1 or the
\* erased marker, in any combination; payloads, residual bytes and the bytes
\* around the partition are what the store was constructed with.
MediaHeaders == {0, 1, HEADER_INIT_VALUE32}

MediaConfigs ==
    {c \in {[byteLength |-> n * MIN_STRIDE + r,
             options |-> [baseAddress |-> y.baseAddress, stride |-> Some(MIN_STRIDE),
                          littleEndian |-> y.littleEndian]] :
               n \in 1 .. MaxMediaSlots, r \in Residuals, y \in Layouts} :
        Coalesce(c.options.baseAddress, DEFAULT_BASE_ADDRESS) + c.byteLength <= StoreLen}

\* The store whose slot i of the partition holds the header headers[i + 1].
MediaOf(c, headers) ==
    LET base   == Coalesce(c.options.baseAddress, DEFAULT_BASE_ADDRESS)
        little == Coalesce(c.options.littleEndian, DEFAULT_LITTLE_ENDIAN)
    IN [a \in Addr |->
          IF /\ a >= base
             /\ a < base + Len(headers) * MIN_STRIDE
             /\ (a - base) % MIN_STRIDE < HEADER_SIZE
          THEN setUint32(headers[((a - base) \div MIN_STRIDE) + 1],
                         little)[((a - base) % MIN_STRIDE) + 1]
          ELSE RawMem[a]]

InitMedia ==
    /\ cfg \in MediaConfigs
    /\ \E headers \in [1 .. (cfg.byteLength \div MIN_STRIDE) -> MediaHeaders] :
          mem = MediaOf(cfg, headers)
    /\ handle = NoHandle
    /\ other = NoHandle
    /\ ret = NoResult
    /\ formatted = FALSE
    /\ k = 0
    /\ lastWrite = Undefined
    /\ overwritten = FALSE
    /\ reinit = FALSE
    /\ torn = FALSE
    /\ pending = NoCalls

NextMedia ==
    \/ \E fullScan \in FullScanOptions : InitHandle(fullScan)
    \/ Read
    \/ ListSlots

SpecMedia == InitMedia /\ [][NextMedia]_vars

\* ------------------------------------------------- failing store reads
\* A partition whose first slots are the last bytes of the store and whose
\* later slots lie past its end: MockEEPROM.read throws 'out of range' there.
\* The slots inside the store hold arbitrary headers.
FaultConfigs ==
    {[byteLength |-> n * MIN_STRIDE,
      options |-> [baseAddress |-> Some(StoreLen - (inside * MIN_STRIDE)),
                   stride |-> Some(MIN_STRIDE), littleEndian |-> e]] :
        n \in 2 .. 3, inside \in 1 .. 2, e \in {Undefined, Some(TRUE)}}

InitFault ==
    /\ cfg \in {c \in FaultConfigs : c.options.baseAddress[1] + c.byteLength > StoreLen}
    /\ \E headers \in [1 .. ((StoreLen - cfg.options.baseAddress[1]) \div MIN_STRIDE)
                          -> MediaHeaders] :
          mem = MediaOf(cfg, headers)
    /\ handle = NoHandle
    /\ other = NoHandle
    /\ ret = NoResult
    /\ formatted = FALSE
    /\ k = 0
    /\ lastWrite = Undefined
    /\ overwritten = FALSE
    /\ reinit = FALSE
    /\ torn = FALSE
    /\ pending = NoCalls

\* await CyclicFS.read(eeprom, { ...handle, empty: false, offset: eeprom.byteLength })
ReadPastEnd ==
    /\ handle # NoHandle
    /\ \E r \in {read(mem, [handle EXCEPT !.empty = FALSE, !.offset = StoreLen])} :
          ret' = [NoResult EXCEPT !.op = "read", !.ok = r.ok, !.err = r.err,
                                  !.data = r.data, !.reads = r.reads]
    /\ UNCHANGED <<mem, cfg, handle, other, formatted, k, lastWrite, overwritten, reinit, torn, pending>>

NextFault ==
    \/ \E fullScan \in FullScanOptions : InitHandle(fullScan)
    \/ \E buffer \in TornBuffers : Write(buffer)
    \/ Read
    \/ ReadPastEnd
    \/ List
    \/ ListSlots

SpecFault == InitFault /\ [][NextFault]_vars

\* --------------------------------------------- versions near the maximum
\* A partition found with headers near the greatest header value: every slot
\* header is 0, the erased marker, or one or two below the erased marker.
HighHeaders == {0, HEADER_INIT_VALUE32 - 2, HEADER_INIT_VALUE32 - 1, HEADER_INIT_VALUE32}

InitHigh ==
    /\ cfg \in {c \in MediaConfigs : c.byteLength \div MIN_STRIDE <= MaxSlots}
    /\ \E headers \in [1 .. (cfg.byteLength \div MIN_STRIDE) -> HighHeaders] :
          mem = MediaOf(cfg, headers)
    /\ handle = NoHandle
    /\ other = NoHandle
    /\ ret = NoResult
    /\ formatted = FALSE
    /\ k = 0
    /\ lastWrite = Undefined
    /\ overwritten = FALSE
    /\ reinit = FALSE
    /\ torn = FALSE
    /\ pending = NoCalls

NextHigh ==
    \/ \E fullScan \in FullScanOptions : InitHandle(fullScan)
    \/ \E buffer \in TornBuffers : Write(buffer)
    \/ Read

SpecHigh == InitHigh /\ [][NextHigh]_vars

\* --------------------------------------- overlapping calls of write
\* Calls of write on one handle that overlap: a call takes what it needs from
\* the handle on entry, is suspended at await blob.arrayBuffer() and at
\* await eeprom.write(...), and assigns the handle when it is resumed.
InFlight == {c \in 1 .. MaxCalls : pending[c].pc # "idle"}

\* write, from its entry to await blob.arrayBuffer(): the buffer checks, and
\* nextVersion, nextOffset and the block computed from the handle as it is now.
WriteEnter(c, buffer) ==
    /\ handle # NoHandle
    /\ pending[c].pc = "idle"
    /\ k + Cardinality(InFlight) < MaxWrites
    /\ buffer # Undefined
    /\ ~bufferTooLarge(buffer[1], handle.stride)
    /\ pending' = [pending EXCEPT ![c] =
                      [pc |-> "entered",
                       nextVersion |-> nextVersion(handle),
                       nextOffset |-> nextOffset(handle),
                       block |-> writeBlock(handle, buffer[1])]]
    /\ UNCHANGED <<mem, cfg, handle, other, ret, formatted, k, lastWrite, overwritten,
                   reinit, torn>>

\* write, resumed with the block: eeprom.write(metadata.baseAddress + nextOffset, block).
\* When the store throws the call ends there, the handle not assigned.
WriteStore(c) ==
    /\ pending[c].pc = "entered"
    /\ \E r \in {MockWrite(mem, handle.baseAddress + pending[c].nextOffset,
                           pending[c].block)} :
          /\ mem' = r.mem
          /\ IF r.ok
             THEN /\ pending' = [pending EXCEPT ![c].pc = "stored"]
                  /\ UNCHANGED ret
             ELSE /\ pending' = [pending EXCEPT ![c] = Idle]
                  /\ ret' = [NoResult EXCEPT
                                !.op = "write", !.ok = FALSE, !.err = r.err,
                                !.writes = <<handle.baseAddress + pending[c].nextOffset>>]
    /\ UNCHANGED <<cfg, handle, other, formatted, k, lastWrite, overwritten, reinit, torn>>

\* write, resumed after the store write: the three assignments to the handle.
WriteReturn(c) ==
    /\ pending[c].pc = "stored"
    /\ handle' = [handle EXCEPT !.version = pending[c].nextVersion,
                                !.offset = pending[c].nextOffset,
                                !.empty = FALSE]
    /\ pending' = [pending EXCEPT ![c] = Idle]
    /\ ret' = [NoResult EXCEPT
                  !.op = "write",
                  !.writes = <<handle.baseAddress + pending[c].nextOffset>>]
    /\ k' = k + 1
    /\ lastWrite' = Some(SubSeq(pending[c].block, HEADER_SIZE + 1, Len(pending[c].block)))
    /\ UNCHANGED <<mem, cfg, other, formatted, overwritten, reinit, torn>>

\* The partitions the overlapping calls write: one or two slots of the smallest
\* stride, with or without residual bytes.
OverlapConfigs ==
    {c \in Configs : /\ c.options.stride = Some(MIN_STRIDE)
                     /\ c.options.baseAddress = Undefined
                     /\ c.byteLength < 3 * MIN_STRIDE}

InitOverlap == Init /\ cfg \in OverlapConfigs

\* The handle is made once the partition is formatted, while no call is in flight.
NextOverlap ==
    \/ Format
    \/ formatted /\ InFlight = {} /\ \E fullScan \in FullScanOptions : InitHandle(fullScan)
    \/ \E c \in 1 .. MaxCalls : \E buffer \in TornBuffers : WriteEnter(c, buffer)
    \/ \E c \in 1 .. MaxCalls : WriteStore(c)
    \/ \E c \in 1 .. MaxCalls : WriteReturn(c)

SpecOverlap == InitOverlap /\ [][NextOverlap]_vars

\* ------------------------------------------------------- claim vocabulary
\* The layout the caller's options select.
Layout == initMeta(cfg.byteLength, InitOptions(Undefined))
Stride == Layout.stride
Base == Layout.baseAddress
SlotCount == cfg.byteLength \div Stride
Aligned == cfg.byteLength % Stride = 0

\* The handle descends from format, init and writes: format succeeded and the
\* handle was returned by an init made since.
Ring == formatted /\ handle # NoHandle

\* The handle is the writer's: the one init returned before the first write.
Writer == Ring /\ ~reinit

SameHead(a, b) ==
    a.version = b.version /\ a.offset = b.offset /\ a.empty = b.empty

IsPrefix(p, q) == Len(p) <= Len(q) /\ SubSeq(q, 1, Len(p)) = p

\* C1: after format, init and k >= 1 successful writes the handle has
\* version = k - 1, offset = ((k - 1) mod n) * stride and empty = false,
\* n = floor(byteLength / stride), also when byteLength is no multiple of stride.
C1_HandleCountsWrites ==
    (Writer /\ k >= 1) =>
        /\ handle.version = k - 1
        /\ handle.offset = ((k - 1) % SlotCount) * Stride
        /\ handle.empty = FALSE

\* C2: after format, init and k >= 1 successful writes, an init with the same
\* options (binary or full scan) succeeds and returns the version, offset and
\* empty of the writer's handle.
C2_ReinitEqualsWriter ==
    [][(Writer /\ k >= 1 /\ ret'.op = "init")
         => (ret'.ok /\ SameHead(ret'.metadata, handle))]_vars

\* C3: on a ring made by format and any number of successful writes the linear
\* and the binary head finder return the same (version, offset, empty).
C3_LinearEqualsBinary ==
    formatted =>
        LET linear == search(mem, [Layout EXCEPT !.fullScan = TRUE])
            binary == search(mem, [Layout EXCEPT !.fullScan = FALSE])
        IN linear.ok /\ binary.ok /\ SameHead(linear, binary)

\* C4: after successful writes ending with payload p, read through the writer's
\* handle or through a handle of a later init returns exactly stride - 4 bytes
\* that begin with p.
C4_ReadReturnsLastWrite ==
    (Ring /\ k >= 1 /\ ret.op = "read") =>
        /\ ret.ok
        /\ ret.data # Undefined
        /\ Len(ret.data[1]) = Stride - HEADER_SIZE
        /\ IsPrefix(lastWrite[1], ret.data[1])

\* C5: init over a freshly formatted partition returns empty = true, version 0
\* and offset 0 in both modes, and every init returns the layout fields of its
\* options, with the defaults 0, 32, false and false for the ones not given.
C5_InitAfterFormat ==
    (ret.op = "init") =>
        /\ (formatted /\ k = 0) =>
              /\ ret.ok
              /\ ret.metadata.empty = TRUE
              /\ ret.metadata.version = 0
              /\ ret.metadata.offset = 0
        /\ ret.ok =>
              /\ ret.metadata.byteLength = cfg.byteLength
              /\ ret.metadata.baseAddress =
                    (IF cfg.options.baseAddress = Undefined THEN 0
                     ELSE cfg.options.baseAddress[1])
              /\ ret.metadata.stride =
                    (IF cfg.options.stride = Undefined THEN 32
                     ELSE cfg.options.stride[1])
              /\ ret.metadata.littleEndian =
                    (IF cfg.options.littleEndian = Undefined THEN FALSE
                     ELSE cfg.options.littleEndian[1])
              /\ ret.metadata.fullScan =
                    (IF ret.fullScan = Undefined THEN FALSE ELSE ret.fullScan[1])

C5_Witness ==
    /\ ret.op = "init" /\ ret.ok /\ formatted /\ k = 0
    /\ ret.metadata.empty /\ ret.metadata.fullScan
    /\ ret.metadata.baseAddress = 2 /\ ret.metadata.littleEndian

\* C6: a successful format sets every byte of [baseAddress, baseAddress +
\* byteLength) to the erased byte, so that every slot header reads as erased,
\* and leaves every byte outside that range as it was.
C6_FormatFrame ==
    [][(ret'.op = "format" /\ ret'.ok) =>
         /\ \A a \in Addr :
               mem'[a] = IF a >= Base /\ a < Base + cfg.byteLength
                         THEN HEADER_INIT_VALUE8 ELSE mem[a]
         /\ \A i \in 0 .. (SlotCount - 1) :
               LET header == readVersion(mem', i * Stride, Layout)
               IN header.ok /\ header.version = HEADER_INIT_VALUE32]_vars

C6_Witness ==
    /\ ret.op = "format" /\ ret.ok
    /\ Base > 0 /\ Base + cfg.byteLength < StoreLen
    /\ mem[Base - 1] # HEADER_INIT_VALUE8
    /\ mem[Base + cfg.byteLength] # HEADER_INIT_VALUE8
    /\ mem[Base] = HEADER_INIT_VALUE8

\* The versions list yielded, in order.
Versions(slots) == [i \in 1 .. Len(slots) |-> slots[i].version]

StrictlyDecreasing(vs) == \A i \in 1 .. (Len(vs) - 1) : vs[i] > vs[i + 1]

\* C7: for a handle from format, init and successful writes, list yields
\* strictly decreasing versions, never an erased slot, at most slotCount items,
\* and stops at the first erased slot met walking backward from the head.
C7_ListDescending ==
    (Ring /\ ret.op = "list") =>
        /\ ret.ok
        /\ StrictlyDecreasing(Versions(ret.slots))
        /\ \A i \in 1 .. Len(ret.slots) : ret.slots[i].version # HEADER_INIT_VALUE32
        /\ Len(ret.slots) <= SlotCount
        /\ (~handle.empty /\ Len(ret.slots) < SlotCount) =>
              LET next == readVersion(mem, actualOffset(handle, Len(ret.slots) * Stride),
                                      Layout)
              IN next.ok /\ next.version = HEADER_INIT_VALUE32

\* C8: when the store's write fails the write call fails with the store's
\* error and the handle is what it was; a write changes the handle only when
\* its store write has succeeded.
C8_FailedWriteKeepsHandle ==
    [][(ret'.op = "write") =>
         /\ (ret'.writes # << >> /\ ~ret'.ok) =>
               (ret'.err = "overflow" /\ handle' = handle)
         /\ (handle' # handle) => (ret'.ok /\ ret'.writes # << >>)]_vars

C8_Witness ==
    /\ ret.op = "write" /\ ~ret.ok /\ ret.writes # << >>
    /\ formatted /\ k >= 1 /\ ~handle.empty

\* C9: write rejects a missing buffer and a buffer longer than stride - 4 before
\* any store access, leaving medium and handle as they were; a buffer of exactly
\* stride - 4 bytes passes the check and one of stride - 3 bytes does not (with
\* stride 5 the only non-empty payloads that pass have one byte).
Rejected(r) ==
    ~r.ok /\ r.reads = << >> /\ r.writes = << >>
    /\ r.err \in {"buffer undefined", "buffer size larger then stride"}

HeadSlot == readSlot(mem, handle.offset, handle)

\* C10 as stated: a read through a non-empty handle returns a payload only when
\* the header at handle.offset equals handle.version, and a handle whose slot
\* another handle has since overwritten never gets a payload from read.
C10_StaleNeverYields ==
    (ret.op = "read" /\ ~handle.empty) =>
        /\ (ret.ok /\ ret.data # Undefined) =>
              (HeadSlot.ok /\ HeadSlot.version = handle.version)
        /\ overwritten => (~ret.ok /\ ret.data = Undefined)

\* C10 amended: a read through a non-empty handle returns the payload region of
\* the slot at handle.offset exactly when the header there equals
\* handle.version; with another header it fails with a version mismatch and
\* no data, so an overwrite of the slot by another handle is refused when it
\* stored another version, and goes unnoticed when it stored the same one.
C10_ReadChecksVersion ==
    (ret.op = "read" /\ ~handle.empty) =>
        /\ (HeadSlot.ok /\ HeadSlot.version = handle.version) =>
              (ret.ok /\ ret.data = Some(HeadSlot.data))
        /\ (HeadSlot.ok /\ HeadSlot.version # handle.version) =>
              (~ret.ok /\ ret.data = Undefined /\ ret.err = "version miss-match")
        /\ ~HeadSlot.ok => (~ret.ok /\ ret.data = Undefined)
        /\ (overwritten /\ ret.ok) =>
              (HeadSlot.version = handle.version /\ ret.data = Some(HeadSlot.data))

C10_Witness ==
    /\ ret.op = "read" /\ ~handle.empty /\ overwritten /\ formatted
    /\ ~ret.ok /\ ret.err = "version miss-match"
    /\ HeadSlot.ok /\ HeadSlot.version = handle.version + SlotCount

\* C11: through a handle whose empty flag is true, read returns undefined and
\* list yields nothing, neither reads nor writes the store, and the flag stays
\* true until a write through the handle succeeds (or the handle is replaced
\* by a new init).
C11_EmptyHandleNoAccess ==
    [][/\ (handle.empty /\ ret'.op \in {"read", "list"}) =>
             /\ ret'.ok
             /\ ret'.data = Undefined
             /\ ret'.slots = << >>
             /\ ret'.reads = << >> /\ ret'.writes = << >>
             /\ mem' = mem /\ handle' = handle
       /\ (handle # NoHandle /\ handle.empty /\ ~handle'.empty) =>
             \/ ret'.op = "write" /\ ret'.ok
             \/ ret'.op = "init" /\ ret'.ok]_vars

C11_Witness ==
    /\ handle # NoHandle /\ handle.empty
    /\ ret.op = "list" /\ ret.ok /\ ret.slots = << >> /\ ret.reads = << >>

\* What a head finder returned, apart from the reads it made.
SameOutcome(a, b) ==
    a.ok = b.ok /\ a.err = b.err /\ SameHead(a, b)

\* The header the slot the next write targets holds on medium m.
TargetHeader(m) == readVersion(m, nextOffset(handle), handle)

\* The version an interrupted or completed write of the handle stores.
TargetVersion == nextVersion(handle) % (HEADER_INIT_VALUE32 + 1)

OwnRange == Base .. (Base + cfg.byteLength - 1)
NeighbourRange == NeighbourBase .. (NeighbourBase + cfg.byteLength - 1)

\* The medium with the bytes of a range as they were before any operation.
Without(range_) == [a \in Addr |-> IF a \in range_ THEN RawMem[a] ELSE mem[a]]

OwnOps == {"format", "init", "write", "read", "list", "listSlots"}
NeighbourOps == {"other.format", "other.init", "other.write", "other.read"}

\* C13: two file systems over disjoint ranges of one store are independent: an
\* operation on one changes neither the bytes nor the handle of the other, and
\* init and read on one return what they return when the other's bytes are as
\* if the other had never been used.
C13_DisjointIndependent ==
    [][/\ (ret'.op \in NeighbourOps) =>
             /\ handle' = handle
             /\ \A a \in OwnRange : mem'[a] = mem[a]
       /\ (ret'.op \in OwnOps) =>
             /\ other' = other
             /\ \A a \in NeighbourRange : mem'[a] = mem[a]
       /\ (ret'.op = "init") =>
             \A r \in {init(Without(NeighbourRange), cfg.byteLength,
                            InitOptions(ret'.fullScan))} :
                ret'.ok = r.ok /\ ret'.metadata = r.metadata
       /\ (ret'.op = "other.init") =>
             \A r \in {init(Without(OwnRange), cfg.byteLength,
                            NeighbourOptions(ret'.fullScan))} :
                ret'.ok = r.ok /\ ret'.metadata = r.metadata
       /\ (ret'.op = "read") =>
             \A r \in {read(Without(NeighbourRange), handle)} :
                ret'.ok = r.ok /\ ret'.data = r.data
       /\ (ret'.op = "other.read") =>
             \A r \in {read(Without(OwnRange), other)} :
                ret'.ok = r.ok /\ ret'.data = r.data]_vars

StoredVersion(i) == readVersion(mem, i * Stride, Layout).version

\* C15: listSlots yields exactly floor(byteLength / stride) items, the item of
\* index i carrying the header stored in slot i (erased slots included), and
\* right after format every yielded version is the erased marker.
C15_ListSlotsAllSlots ==
    (ret.op = "listSlots") =>
        /\ ret.ok
        /\ Len(ret.slots) = SlotCount
        /\ \A i \in 1 .. Len(ret.slots) : ret.slots[i].version = StoredVersion(i - 1)
        /\ (formatted /\ k = 0) =>
              \A i \in 1 .. Len(ret.slots) : ret.slots[i].version = HEADER_INIT_VALUE32

\* ---------------------------------------------------------------- C16
\* C16: in a partition of exactly one slot every successful write goes to slot 0:
\* the writer's handle keeps offset 0 and has version k - 1 after k writes, each
\* write programs the store at baseAddress, and init, linear or binary, returns
\* offset 0 with the last written version.
C16_SingleSlot ==
    (SlotCount = 1 /\ formatted /\ k >= 1) =>
        /\ Writer => (handle.offset = 0 /\ handle.version = k - 1 /\ ~handle.empty)
        /\ (ret.op = "write" /\ ret.ok) => ret.writes = <<Base>>
        /\ (ret.op = "init") =>
              /\ ret.ok
              /\ ret.metadata.offset = 0
              /\ ret.metadata.version = k - 1
              /\ ~ret.metadata.empty

\* ---------------------------------------------------------------- C17
\* The headers stored in the slots 0 .. SlotCount - 1, in physical order.
StoredVersions == [i \in 1 .. SlotCount |-> StoredVersion(i - 1)]

\* C17: between the writer's operations, after format, init and successful
\* writes, the non-erased slots are a segment starting at slot 0, the greatest
\* stored version is in exactly one slot, and that slot is the one at
\* handle.offset, holding handle.version.
C17_UniqueHead ==
    (Writer /\ k >= 1) =>
        /\ \A i \in 1 .. SlotCount :
              StoredVersions[i] # HEADER_INIT_VALUE32
                 => \A j \in 1 .. i : StoredVersions[j] # HEADER_INIT_VALUE32
        /\ handle.offset % Stride = 0
        /\ handle.offset \div Stride < SlotCount
        /\ StoredVersions[(handle.offset \div Stride) + 1] = handle.version
        /\ \A i \in 1 .. SlotCount :
              (i # (handle.offset \div Stride) + 1 /\ StoredVersions[i] # HEADER_INIT_VALUE32)
                 => StoredVersions[i] < handle.version

\* ---------------------------------------------------------------- C18
\* The store addresses a write through the handle programs with the payload.
WriteRange(metadata, payload) ==
    {a \in Addr : /\ a >= metadata.baseAddress + nextOffset(metadata)
                  /\ a < metadata.baseAddress + nextOffset(metadata)
                           + HEADER_SIZE + Len(payload)}

\* C18: a successful write makes one store write and no store read, changes no
\* byte outside [baseAddress + nextOffset, baseAddress + nextOffset + 4 + len),
\* and that range lies in one slot of index below floor(byteLength / stride) and
\* inside [baseAddress, baseAddress + byteLength).
C18_WriteFrame ==
    [][(handle # NoHandle /\ ret'.op = "write" /\ ret'.ok /\ k' = k + 1)
       => /\ ret'.writes = <<handle.baseAddress + nextOffset(handle)>>
          /\ ret'.reads = << >>
          /\ \A a \in Addr \ WriteRange(handle, ret'.buffer[1]) : mem'[a] = mem[a]
          /\ nextOffset(handle) % handle.stride = 0
          /\ nextOffset(handle) \div handle.stride < handle.byteLength \div handle.stride
          /\ HEADER_SIZE + Len(ret'.buffer[1]) <= handle.stride
          /\ nextOffset(handle) + HEADER_SIZE + Len(ret'.buffer[1]) <= handle.byteLength]_vars

\* ---------------------------------------------------------------- C19
\* C19: after format, init and k >= 1 successful writes over n slots, list yields
\* min(k, n) items with the versions k - 1, k - 2, ..., k - min(k, n) in that
\* order, and the item of version v begins with the payload of the write that
\* produced version v.
C19_ListNewestFirst ==
    (Ring /\ k >= 1 /\ ret.op = "list") =>
        /\ ret.ok
        /\ Len(ret.slots) = Min(k, SlotCount)
        /\ \A i \in 1 .. Len(ret.slots) :
              /\ ret.slots[i].version = k - i
              /\ IsPrefix(PayloadOf(k - i), ret.slots[i].data)

\* ---------------------------------------------------------------- C20
\* The versions of a run of slots rise strictly in physical order.
Increasing(vs, from, to) == \A i, j \in from .. to : i < j => vs[i] < vs[j]

\* No slot of the run is erased.
Programmed(vs, from, to) == \A i \in from .. to : vs[i] # HEADER_INIT_VALUE32

\* Slots 1 .. p are written with rising versions and the later slots are erased.
RisingPrefix(vs, p) ==
    /\ Programmed(vs, 1, p)
    /\ Increasing(vs, 1, p)
    /\ \A i \in (p + 1) .. Len(vs) : vs[i] = HEADER_INIT_VALUE32

\* The slots up to h hold the newer run and the slots after h the older run.
TwoRuns(vs, h) ==
    /\ Programmed(vs, 1, Len(vs))
    /\ Increasing(vs, 1, h)
    /\ Increasing(vs, h + 1, Len(vs))
    /\ \A i \in 1 .. h : \A j \in (h + 1) .. Len(vs) : vs[i] > vs[j]

\* C20: on a ring reached by format and successful writes of one writer, through
\* the handle of any init made on the way, the stored versions of the slots
\* 0 .. slotCount - 1 satisfy the precondition of the binary search: up to the
\* first wrap (k <= slotCount) the first k slots hold strictly rising versions
\* and the later slots are erased; after it the versions rise strictly on
\* [0 .. head] and on [head + 1 .. slotCount - 1] and every version of the first
\* run exceeds every version of the second.
C20_BinarySearchPrecondition ==
    Ring =>
        /\ (k <= SlotCount) => RisingPrefix(StoredVersions, k)
        /\ (k > SlotCount) => \E h \in 1 .. SlotCount : TwoRuns(StoredVersions, h)

\* ---------------------------------------------------------------- C21
\* The calls of _search the binary head finder makes on the present medium.
BinaryCalls == search_binary_calls(mem, Layout)

\* C21: whatever the partition holds, the binary head finder terminates, every
\* header it reads is that of a slot 0 .. slotCount - 1, every call of the search
\* has startPos <= endPos inside that range, and the offset returned is
\* index * stride for an index of that range.
C21_BinarySearchInRange ==
    (ret.op = "init" /\ ret.fullScan = Undefined) =>
        /\ ret.ok
        /\ \A i \in 1 .. Len(ret.reads) :
              /\ ret.reads[i] % Stride = 0
              /\ ret.reads[i] \div Stride \in 0 .. (SlotCount - 1)
        /\ \A i \in 1 .. Len(BinaryCalls) :
              /\ BinaryCalls[i][1] <= BinaryCalls[i][2]
              /\ BinaryCalls[i][1] >= 0
              /\ BinaryCalls[i][2] <= SlotCount - 1
        /\ ret.metadata.offset % Stride = 0
        /\ ret.metadata.offset \div Stride \in 0 .. (SlotCount - 1)

\* C21 witness: a binary init over four or more slots of arbitrary contents has
\* narrowed its interval three times or more, once to the left of a pivot.
C21_Witness ==
    /\ ret.op = "init" /\ ret.fullScan = Undefined /\ ret.ok
    /\ ~formatted
    /\ SlotCount >= 4
    /\ Len(BinaryCalls) >= 3
    /\ \E i \in 1 .. (Len(BinaryCalls) - 1) : BinaryCalls[i + 1][2] < BinaryCalls[i][2]

\* ---------------------------------------------------------------- C22
\* floor(log2(n)) for n >= 1.
RECURSIVE FloorLog2(_)
FloorLog2(n) == IF n <= 1 THEN 0 ELSE 1 + FloorLog2(n \div 2)

\* C22: whatever the partition holds, one binary init over n slots makes at most
\* 1 + 2 * floor(log2(n)) store reads.
C22_BinarySearchLogReads ==
    (ret.op = "init" /\ ret.fullScan = Undefined) =>
        Len(ret.reads) <= 1 + 2 * FloorLog2(SlotCount)

\* C22 witness: a binary init over four or more slots has made exactly
\* 1 + 2 * floor(log2(n)) reads.
C22_Witness ==
    /\ ret.op = "init" /\ ret.fullScan = Undefined /\ ret.ok
    /\ SlotCount >= 4
    /\ Len(ret.reads) = 1 + 2 * FloorLog2(SlotCount)

\* ---------------------------------------------------------------- C23
\* The number of slots before the first erased slot (all of them when none is).
LeadingProgrammed ==
    IF \A i \in 1 .. SlotCount : StoredVersions[i] # HEADER_INIT_VALUE32
    THEN SlotCount
    ELSE (CHOOSE i \in 1 .. SlotCount :
             /\ StoredVersions[i] = HEADER_INIT_VALUE32
             /\ \A j \in 1 .. (i - 1) : StoredVersions[j] # HEADER_INIT_VALUE32) - 1

\* C23: whatever the partition holds, the linear head finder reads the headers
\* of slots 0, 1, ... in order up to the first erased slot and never beyond slot
\* slotCount - 1; it returns the first slot holding the greatest version among
\* the slots before the first erased one, with empty = false, and it returns
\* empty = true, version 0, offset 0 exactly when slot 0 is erased.
C23_LinearScan ==
    (ret.op = "init" /\ ret.fullScan = Some(TRUE)) =>
        /\ ret.ok
        /\ ret.reads = [i \in 1 .. Min(LeadingProgrammed + 1, SlotCount) |-> (i - 1) * Stride]
        /\ (LeadingProgrammed = 0) =>
              /\ ret.metadata.empty
              /\ ret.metadata.version = 0
              /\ ret.metadata.offset = 0
        /\ (LeadingProgrammed > 0) =>
              /\ ~ret.metadata.empty
              /\ \E h \in 1 .. LeadingProgrammed :
                    /\ ret.metadata.offset = (h - 1) * Stride
                    /\ ret.metadata.version = StoredVersions[h]
                    /\ \A j \in 1 .. LeadingProgrammed : StoredVersions[j] <= StoredVersions[h]
                    /\ \A j \in 1 .. (h - 1) : StoredVersions[j] < StoredVersions[h]

RefusedReads(r) == {i \in 1 .. Len(r.reads) : Base + r.reads[i] >= StoreLen}

\* C25: when a store read fails during init, read or list, the operation fails
\* with the store's error, the failing read is the last store call it makes and
\* is made once, the caller's handle and the medium are unchanged, and init
\* returns no handle.
C25_ReadFailurePropagates ==
    [][(ret'.op \in {"init", "read", "list"} /\ RefusedReads(ret') # {})
       => /\ ~ret'.ok
          /\ ret'.err = "out of range"
          /\ RefusedReads(ret') = {Len(ret'.reads)}
          /\ ret'.metadata = NoHandle
          /\ ret'.data = Undefined
          /\ handle' = handle
          /\ mem' = mem]_vars

\* C25 witness: a list through a written handle has failed on its second read,
\* refused by the store, and the handle is still the written one.
C25_Witness ==
    /\ ret.op = "list" /\ ~ret.ok /\ ret.err = "out of range"
    /\ Len(ret.reads) >= 2
    /\ ~handle.empty
    /\ k >= 1

\* ---------------------------------------------------------------- C26
\* The handle is well formed: an empty handle has version 0 and offset 0, and
\* the offset is that of a slot lying wholly inside the partition.
WellFormed(h) ==
    /\ h.empty => (h.version = 0 /\ h.offset = 0)
    /\ h.offset % h.stride = 0
    /\ h.offset + h.stride <= h.byteLength

\* C26: every handle returned by init and carried through successful and failed
\* writes is well formed; a successful write leaves empty = false, and no write
\* makes a non-empty handle empty again.
C26_HandleWellFormed ==
    [][/\ (handle' # NoHandle) => WellFormed(handle')
       /\ (handle # NoHandle /\ ret'.op = "write") =>
             /\ (ret'.ok /\ k' = k + 1) => ~handle'.empty
             /\ ~handle.empty => ~handle'.empty]_vars

\* ---------------------------------------------------------------- C27
\* The write just made went through: the header stored at the handle's new
\* offset is the handle's new version and not the erased marker, and a read
\* through the handle succeeds.
WriteLanded ==
    /\ readVersion(mem', handle'.offset, handle').ok
    /\ readVersion(mem', handle'.offset, handle').version = handle'.version
    /\ readVersion(mem', handle'.offset, handle').version # HEADER_INIT_VALUE32
    /\ read(mem', handle').ok

\* C27 as stated: for every handle whose version is below the greatest header
\* value, a successful write stores the handle's new version, which is not the
\* erased marker, and an immediate read through the handle succeeds.
C27_WriteBelowMaximum ==
    [][(/\ handle # NoHandle
        /\ handle.version < HEADER_INIT_VALUE32
        /\ ret'.op = "write" /\ ret'.ok /\ k' = k + 1)
       => WriteLanded]_vars

\* C27 amended: the same for every handle whose next version is below the
\* greatest header value, that is, an empty handle or one whose version is
\* below the greatest header value less one.
C27_WriteBelowErasedMarker ==
    [][(/\ handle # NoHandle
        /\ nextVersion(handle) < HEADER_INIT_VALUE32
        /\ ret'.op = "write" /\ ret'.ok /\ k' = k + 1)
       => WriteLanded]_vars

\* C27 witness: a handle that init returned from arbitrary media with the
\* version two below the erased marker has written once; the slot holds the
\* version one below the erased marker.
C27_Witness ==
    /\ ret.op = "write" /\ ret.ok
    /\ ~formatted
    /\ k = 1
    /\ handle.version = HEADER_INIT_VALUE32 - 1
    /\ readVersion(mem, handle.offset, handle).version = HEADER_INIT_VALUE32 - 1

\* ---------------------------------------------------------------- C28
\* C28: however calls of write on one handle are interleaved at their awaits,
\* the handle's version never decreases, and once every call has completed the
\* header stored at handle.offset is handle.version and init with the handle's
\* options returns the handle's version and offset.
C28_OverlappingWrites ==
    [][/\ (handle # NoHandle /\ handle' # NoHandle /\ formatted')
             => handle'.version >= handle.version
       /\ (formatted' /\ handle' # NoHandle /\ ~handle'.empty /\ InFlight' = {}) =>
             /\ readVersion(mem', handle'.offset, handle').version = handle'.version
             /\ \A r \in {search(mem', handle')} :
                   r.ok /\ r.version = handle'.version /\ r.offset = handle'.offset]_vars

\* ---------------------------------------------------------------- C29
\* The operations that only read: init (by either caller), read, list, listSlots.
ReadOnlyOps == {"init", "other.init", "read", "list", "listSlots"}

\* C29: init, read, list and listSlots issue no store write and leave every byte
\* of the medium and every existing handle as they are (init gives its caller a
\* new handle and leaves the other caller's); a step that changes the medium is
\* a format or a write, and a step that changes a handle a caller keeps is a
\* write through that handle.
C29_ReadOnlyOperations ==
    [][/\ (ret'.op \in ReadOnlyOps) =>
             /\ mem' = mem
             /\ ret'.writes = << >>
             /\ (ret'.op # "init") => handle' = handle
             /\ (ret'.op # "other.init") => other' = other
       /\ (mem' # mem) => ret'.op \in {"format", "write", "other.write"}
       /\ (handle # NoHandle /\ handle' # handle) => ret'.op \in {"write", "init", "format"}
       /\ (other # NoHandle /\ other' # other) => ret'.op \in {"other.write", "other.init", "format"}]_vars

\* C29 witness: both callers hold a handle over a written ring and a list has
\* just yielded its slots.
C29_Witness ==
    /\ ret.op = "list" /\ ret.ok
    /\ Len(ret.slots) >= 1
    /\ handle # NoHandle /\ other # NoHandle
    /\ ~other.empty
    /\ k >= 2

====
